---- MODULE Spec2Model ----
(***************************************************************************)
(* A model of hbb_common's transport core:                                 *)
(*   - BytesCodec (libs/hbb_common/src/bytes_codec.rs): the length         *)
(*     prefixed frame codec with its raw passthrough mode;                 *)
(*   - socket_client.rs: increase_port, connect_tcp_local, test_target,    *)
(*     new_udp_for, new_udp, rebind_udp_for.                               *)
(*                                                                         *)
(* Byte strings (Bytes, BytesMut) are kept run-length encoded: a sequence  *)
(* of runs [b |-> byte, k |-> count], no run empty, no two neighbours of   *)
(* the same byte.  Every byte string has exactly one such form, so "="     *)
(* on the forms is "=" on the byte strings, and a payload of 0x3FFFFFFF    *)
(* bytes is one run.                                                       *)
(*                                                                         *)
(* TLC's integers are 32 bit signed.  A header word (data.len() << 2 may   *)
(* use all 32 bits) is therefore kept as its four little-endian bytes and  *)
(* never as one number.                                                    *)
(***************************************************************************)
EXTENDS Integers, Sequences, FiniteSets, TLC

VARIABLES
    state,              \* BytesCodec.state: [tag |-> "Head" | "Data", n |-> usize]
    raw,                \* BytesCodec.raw
    max_packet_length,  \* BytesCodec.max_packet_length
    src,                \* the BytesMut handed to decode (the read buffer)
    buf,                \* the BytesMut handed to encode (the write buffer, on its way to src)
    op,                 \* the last codec call: its name, arguments, result, and the state before it
    nops,               \* calls made so far, per kind, and whether a decode has yet
                        \* returned an item or an error
    sent,               \* the payloads encode has accepted, in order
    config,             \* the process-wide configuration: [socks |-> None or the proxy's settings]
    task,               \* the socket_client call in progress: function, arguments, position, locals
    io,                 \* the collaborator calls it has made, in order, with their outcomes
    res,                \* what it returned
    port_in,            \* increase_port's arguments, and the build's overflow checks
    port_out            \* what increase_port returned, or that it panicked

codecVars == <<state, raw, max_packet_length, src, buf, op, nops, sent>>
connVars == <<config, task, io, res>>
portVars == <<port_in, port_out>>

-----------------------------------------------------------------------------
(* Byte strings *)

Run(b, k) == [b |-> b, k |-> k]

RECURSIVE Norm(_)
Norm(s) ==
    IF s = <<>> THEN <<>>
    ELSE IF Head(s).k = 0 THEN Norm(Tail(s))
    ELSE LET r == Norm(Tail(s)) IN
         IF r # <<>> /\ Head(r).b = Head(s).b
         THEN <<Run(Head(s).b, Head(s).k + Head(r).k)>> \o Tail(r)
         ELSE <<Head(s)>> \o r

\* BytesMut::len
RECURSIVE BLen(_)
BLen(s) == IF s = <<>> THEN 0 ELSE Head(s).k + BLen(Tail(s))

\* src[i], i counted from 0 (i < BLen(s))
RECURSIVE At(_, _)
At(s, i) == IF i < Head(s).k THEN Head(s).b ELSE At(Tail(s), i - Head(s).k)

\* the bytes left after Buf::advance(k) / BytesMut::split_to(k)
RECURSIVE Advance(_, _)
Advance(s, k) ==
    IF k = 0 \/ s = <<>> THEN s
    ELSE IF k < Head(s).k THEN <<Run(Head(s).b, Head(s).k - k)>> \o Tail(s)
    ELSE Advance(Tail(s), k - Head(s).k)

\* the bytes BytesMut::split_to(k) returns
RECURSIVE SplitTo(_, _)
SplitTo(s, k) ==
    IF k = 0 \/ s = <<>> THEN <<>>
    ELSE IF k < Head(s).k THEN <<Run(Head(s).b, k)>>
    ELSE <<Head(s)>> \o SplitTo(Tail(s), k - Head(s).k)

\* BufMut::put / BytesMut::extend
Extend(s, t) == Norm(s \o t)

\* put_u8: one byte appended
PutU8(s, b) == Extend(s, <<Run(b, 1)>>)

-----------------------------------------------------------------------------
(* Words *)

RECURSIVE BitOr(_, _)
BitOr(a, b) ==
    IF a = 0 THEN b
    ELSE IF b = 0 THEN a
    ELSE (IF a % 2 = 1 \/ b % 2 = 1 THEN 1 ELSE 0) + 2 * BitOr(a \div 2, b \div 2)

\* The four low bytes of len << 2, least significant first.
Shl2(len) ==
    << (len % 64) * 4, (len \div 64) % 256, (len \div 16384) % 256, (len \div 4194304) % 256 >>

\* w >> 2 of the word whose little-endian bytes are w
Shr2(w) == (w[1] \div 4) + w[2] * 64 + w[3] * 16384 + w[4] * 4194304

\* a & b
RECURSIVE BitAnd(_, _)
BitAnd(a, b) ==
    IF a = 0 \/ b = 0 THEN 0
    ELSE (IF a % 2 = 1 /\ b % 2 = 1 THEN 1 ELSE 0) + 2 * BitAnd(a \div 2, b \div 2)

-----------------------------------------------------------------------------
(* BytesCodec *)

\* usize::MAX, the default max_packet_length.  The model's usize is the widest
\* TLC has (31 bits); every length decode_head can compute is below 2^30.
UsizeMax == 2147483647

\* the largest payload length of each header length (encode's comparisons)
Max1 == 63
Max2 == 16383
Max3 == 4194303
Max4 == 1073741823

StHead == [tag |-> "Head", n |-> 0]
StData(n) == [tag |-> "Data", n |-> n]

\* BytesCodec::new
new == [state |-> StHead, raw |-> FALSE, max_packet_length |-> UsizeMax]

\* decode_head with the limit compared by >=: a length equal to the limit is refused
decode_head_ge(mpl, s) ==
    IF s = <<>> THEN [ret |-> "None", n |-> 0, src |-> s]
    ELSE LET head_len == BitAnd(At(s, 0), 3) + 1 IN
         IF BLen(s) < head_len THEN [ret |-> "None", n |-> 0, src |-> s]
         ELSE LET w == << At(s, 0),
                          IF head_len > 1 THEN At(s, 1) ELSE 0,
                          IF head_len > 2 THEN At(s, 2) ELSE 0,
                          IF head_len > 3 THEN At(s, 3) ELSE 0 >>
                  n == Shr2(w)
              IN  IF n >= mpl
                  THEN [ret |-> "Err", n |-> 0, src |-> s]
                  ELSE [ret |-> "Some", n |-> n, src |-> Advance(s, head_len)]

\* decode_head that takes a header longer than its length needs for corrupt
decode_head_canonical(mpl, s) ==
    IF s = <<>> THEN [ret |-> "None", n |-> 0, src |-> s]
    ELSE LET head_len == BitAnd(At(s, 0), 3) + 1 IN
         IF BLen(s) < head_len THEN [ret |-> "None", n |-> 0, src |-> s]
         ELSE LET w == << At(s, 0),
                          IF head_len > 1 THEN At(s, 1) ELSE 0,
                          IF head_len > 2 THEN At(s, 2) ELSE 0,
                          IF head_len > 3 THEN At(s, 3) ELSE 0 >>
                  n == Shr2(w)
                  least == IF n <= Max1 THEN 1 ELSE IF n <= Max2 THEN 2
                           ELSE IF n <= Max3 THEN 3 ELSE 4
              IN  IF n > mpl \/ head_len # least
                  THEN [ret |-> "Err", n |-> 0, src |-> s]
                  ELSE [ret |-> "Some", n |-> n, src |-> Advance(s, head_len)]

\* decode_head taking an empty buffer for a broken stream
decode_head_empty_err(mpl, s) ==
    IF s = <<>> THEN [ret |-> "Err", n |-> 0, src |-> s]
    ELSE LET head_len == BitAnd(At(s, 0), 3) + 1 IN
         IF BLen(s) < head_len THEN [ret |-> "None", n |-> 0, src |-> s]
         ELSE LET w == << At(s, 0),
                          IF head_len > 1 THEN At(s, 1) ELSE 0,
                          IF head_len > 2 THEN At(s, 2) ELSE 0,
                          IF head_len > 3 THEN At(s, 3) ELSE 0 >>
                  n == Shr2(w)
              IN  IF n > mpl
                  THEN [ret |-> "Err", n |-> 0, src |-> s]
                  ELSE [ret |-> "Some", n |-> n, src |-> Advance(s, head_len)]

\* BytesCodec::decode_head: Ok(None), Ok(Some(n)) with the header consumed, or Err
decode_head(mpl, s) ==
    IF s = <<>> THEN [ret |-> "None", n |-> 0, src |-> s]
    ELSE LET head_len == BitAnd(At(s, 0), 3) + 1 IN
         IF BLen(s) < head_len THEN [ret |-> "None", n |-> 0, src |-> s]
         ELSE LET w == << At(s, 0),
                          IF head_len > 1 THEN At(s, 1) ELSE 0,
                          IF head_len > 2 THEN At(s, 2) ELSE 0,
                          IF head_len > 3 THEN At(s, 3) ELSE 0 >>
                  n == Shr2(w)
              IN  IF n > mpl
                  THEN [ret |-> "Err", n |-> 0, src |-> s]
                  ELSE [ret |-> "Some", n |-> n, src |-> Advance(s, head_len)]

\* decode_data handing back nothing but taking the bytes that are there
decode_data_drops(n, s) ==
    IF BLen(s) < n
    THEN [ret |-> "None", item |-> <<>>, src |-> <<>>]
    ELSE [ret |-> "Some", item |-> SplitTo(s, n), src |-> Advance(s, n)]

\* decode_data handing back all that is buffered once n bytes are there
decode_data_greedy(n, s) ==
    IF BLen(s) < n
    THEN [ret |-> "None", item |-> <<>>, src |-> s]
    ELSE [ret |-> "Some", item |-> SplitTo(s, BLen(s)), src |-> <<>>]

\* BytesCodec::decode_data: Ok(None), or Ok(Some(data)) with n bytes split off
decode_data(n, s) ==
    IF BLen(s) < n
    THEN [ret |-> "None", item |-> <<>>, src |-> s]
    ELSE [ret |-> "Some", item |-> SplitTo(s, n), src |-> Advance(s, n)]

\* decode that does not keep Data(n) when the payload is not there yet
decode_forgets(c, s) ==
    IF c.raw
    THEN IF s # <<>>
         THEN [ret |-> "Some", item |-> SplitTo(s, BLen(s)), state |-> c.state,
               src |-> Advance(s, BLen(s))]
         ELSE [ret |-> "None", item |-> <<>>, state |-> c.state, src |-> s]
    ELSE LET h == IF c.state.tag = "Head"
                  THEN decode_head(c.max_packet_length, s)
                  ELSE [ret |-> "Some", n |-> c.state.n, src |-> s]
         IN  IF h.ret = "Err"
             THEN [ret |-> "Err", item |-> <<>>, state |-> c.state, src |-> s]
             ELSE IF h.ret = "None"
             THEN [ret |-> "None", item |-> <<>>, state |-> c.state, src |-> s]
             ELSE LET d == decode_data(h.n, h.src) IN
                  IF d.ret = "Some"
                  THEN [ret |-> "Some", item |-> d.item, state |-> StHead, src |-> d.src]
                  ELSE [ret |-> "None", item |-> <<>>, state |-> c.state, src |-> d.src]

\* decode that looks at raw only in Head: a frame under way is finished first
decode_raw_late(c, s) ==
    IF c.raw /\ c.state.tag = "Head"
    THEN IF s # <<>>
         THEN [ret |-> "Some", item |-> SplitTo(s, BLen(s)), state |-> c.state,
               src |-> Advance(s, BLen(s))]
         ELSE [ret |-> "None", item |-> <<>>, state |-> c.state, src |-> s]
    ELSE LET h == IF c.state.tag = "Head"
                  THEN decode_head(c.max_packet_length, s)
                  ELSE [ret |-> "Some", n |-> c.state.n, src |-> s]
         IN  IF h.ret = "Err"
             THEN [ret |-> "Err", item |-> <<>>, state |-> c.state, src |-> s]
             ELSE IF h.ret = "None"
             THEN [ret |-> "None", item |-> <<>>, state |-> c.state, src |-> s]
             ELSE LET d == decode_data(h.n, h.src) IN
                  IF d.ret = "Some"
                  THEN [ret |-> "Some", item |-> d.item, state |-> StHead, src |-> d.src]
                  ELSE [ret |-> "None", item |-> <<>>, state |-> StData(h.n), src |-> d.src]

\* Decoder::decode: the result, the item, and the codec state and buffer it leaves
decode(c, s) ==
    IF c.raw
    THEN IF s # <<>>
         THEN [ret |-> "Some", item |-> SplitTo(s, BLen(s)), state |-> c.state,
               src |-> Advance(s, BLen(s))]
         ELSE [ret |-> "None", item |-> <<>>, state |-> c.state, src |-> s]
    ELSE LET h == IF c.state.tag = "Head"
                  THEN decode_head(c.max_packet_length, s)
                  ELSE [ret |-> "Some", n |-> c.state.n, src |-> s]
         IN  IF h.ret = "Err"
             THEN [ret |-> "Err", item |-> <<>>, state |-> c.state, src |-> s]
             ELSE IF h.ret = "None"
             THEN [ret |-> "None", item |-> <<>>, state |-> c.state, src |-> s]
             ELSE LET d == decode_data(h.n, h.src) IN
                  IF d.ret = "Some"
                  THEN [ret |-> "Some", item |-> d.item, state |-> StHead, src |-> d.src]
                  ELSE [ret |-> "None", item |-> <<>>, state |-> StData(h.n), src |-> d.src]

\* encode with the limits compared by <: a length on a limit gets the longer header
encode_lt(c, data, b) ==
    LET len == BLen(data)
        h == Shl2(len)
    IN  IF c.raw THEN [ret |-> "Ok", buf |-> Extend(b, data)]
        ELSE IF len < Max1
        THEN [ret |-> "Ok", buf |-> Extend(PutU8(b, h[1]), data)]
        ELSE IF len < Max2
        THEN [ret |-> "Ok", buf |-> Extend(PutU8(PutU8(b, BitOr(h[1], 1)), h[2]), data)]
        ELSE IF len < Max3
        THEN [ret |-> "Ok",
              buf |-> Extend(PutU8(PutU8(PutU8(b, BitOr(h[1], 2)), h[2]), h[3]), data)]
        ELSE IF len <= Max4
        THEN [ret |-> "Ok",
              buf |-> Extend(PutU8(PutU8(PutU8(PutU8(b, BitOr(h[1], 3)), h[2]), h[3]), h[4]),
                             data)]
        ELSE [ret |-> "Err", buf |-> b]

\* encode without the last comparison: the 4 byte header is written for every
\* longer payload, truncated to 32 bits, before the length is found too big
encode_late_check(c, data, b) ==
    LET len == BLen(data)
        h == Shl2(len)
    IN  IF c.raw THEN [ret |-> "Ok", buf |-> Extend(b, data)]
        ELSE IF len <= Max1
        THEN [ret |-> "Ok", buf |-> Extend(PutU8(b, h[1]), data)]
        ELSE IF len <= Max2
        THEN [ret |-> "Ok", buf |-> Extend(PutU8(PutU8(b, BitOr(h[1], 1)), h[2]), data)]
        ELSE IF len <= Max3
        THEN [ret |-> "Ok",
              buf |-> Extend(PutU8(PutU8(PutU8(b, BitOr(h[1], 2)), h[2]), h[3]), data)]
        ELSE LET hb == PutU8(PutU8(PutU8(PutU8(b, BitOr(h[1], 3)), h[2]), h[3]), h[4]) IN
             IF len <= Max4
             THEN [ret |-> "Ok", buf |-> Extend(hb, data)]
             ELSE [ret |-> "Err", buf |-> hb]

\* Encoder::encode: Ok or Err, and the buffer it leaves
encode(c, data, b) ==
    LET len == BLen(data)
        h == Shl2(len)
    IN  IF c.raw THEN [ret |-> "Ok", buf |-> Extend(b, data)]
        ELSE IF len <= Max1
        THEN [ret |-> "Ok", buf |-> Extend(PutU8(b, h[1]), data)]
        ELSE IF len <= Max2
        THEN [ret |-> "Ok", buf |-> Extend(PutU8(PutU8(b, BitOr(h[1], 1)), h[2]), data)]
        ELSE IF len <= Max3
        THEN [ret |-> "Ok",
              buf |-> Extend(PutU8(PutU8(PutU8(b, BitOr(h[1], 2)), h[2]), h[3]), data)]
        ELSE IF len <= Max4
        THEN [ret |-> "Ok",
              buf |-> Extend(PutU8(PutU8(PutU8(PutU8(b, BitOr(h[1], 3)), h[2]), h[3]), h[4]),
                             data)]
        ELSE [ret |-> "Err", buf |-> b]

-----------------------------------------------------------------------------
(* The codec's callers: the inputs and the bounds of the exploration *)

\* in one run: frames written to buf, and chunks delivered to src
MaxEncodes == 1
MaxRecvs == 3

\* payload lengths: both sides of every header length's limit
PayloadLens == {0, 1, Max1, Max1 + 1, Max2, Max2 + 1, Max3, Max3 + 1, Max4, Max4 + 1}

\* a payload of len bytes: one byte p[1], then p[2] throughout
Payload(len, p) == IF len = 0 THEN <<>> ELSE Norm(<<Run(p[1], 1), Run(p[2], len - 1)>>)

\* (first byte, the rest): bytes that would read as headers of 4 and of 2 bytes
Patterns == {<<255, 1>>}

Payloads == {Payload(len, p) : len \in PayloadLens, p \in Patterns}

\* the values set_max_packet_length is called with
PacketLimits == {Max2, UsizeMax}

\* the sizes of the chunks a read delivers: one byte, up to the end of each run
\* of b (each header byte, each payload), all but the last byte, everything
RECURSIVE RunEnds(_)
RunEnds(b) ==
    IF b = <<>> THEN {}
    ELSE {Head(b).k} \cup {Head(b).k + e : e \in RunEnds(Tail(b))}

Cuts(b) == {k \in {1, BLen(b) - 1} \cup RunEnds(b) : 1 <= k /\ k <= BLen(b)}

Codec == [state |-> state, raw |-> raw, max_packet_length |-> max_packet_length]

Snap == [state |-> state, raw |-> raw, max_packet_length |-> max_packet_length,
         src |-> src, buf |-> buf, yielded |-> nops.yielded]

Call(name, data, n, ret, item) ==
    [name |-> name, data |-> data, n |-> n, ret |-> ret, item |-> item, pre |-> Snap]

\* BytesCodec::set_raw
set_raw ==
    /\ raw' = TRUE
    /\ op' = Call("set_raw", <<>>, 0, "", <<>>)
    /\ UNCHANGED <<state, max_packet_length, src, buf, nops, sent, connVars, portVars>>

\* BytesCodec::set_max_packet_length
set_max_packet_length(n) ==
    /\ max_packet_length' = n
    /\ op' = Call("set_max_packet_length", <<>>, n, "", <<>>)
    /\ UNCHANGED <<state, raw, src, buf, nops, sent, connVars, portVars>>

\* a call of Encoder::encode(data, buf)
Encode(data) ==
    /\ nops.encode < MaxEncodes
    /\ BLen(buf) + BLen(src) <= UsizeMax - 4 - BLen(data)
    /\ LET r == encode(Codec, data, buf) IN
        /\ buf' = r.buf
        /\ op' = Call("encode", data, 0, r.ret, <<>>)
        /\ sent' = IF r.ret = "Ok" THEN Append(sent, data) ELSE sent
    /\ nops' = [nops EXCEPT !.encode = @ + 1]
    /\ UNCHANGED <<state, raw, max_packet_length, src, connVars, portVars>>

\* the transport reads k more bytes of the stream into the read buffer
Recv(k) ==
    /\ nops.recv < MaxRecvs
    /\ src' = Extend(src, SplitTo(buf, k))
    /\ buf' = Advance(buf, k)
    /\ op' = Call("recv", SplitTo(buf, k), k, "", <<>>)
    /\ nops' = [nops EXCEPT !.recv = @ + 1]
    /\ UNCHANGED <<state, raw, max_packet_length, sent, connVars, portVars>>

\* a call of Decoder::decode(src)
Decode ==
    LET r == decode(Codec, src) IN
        /\ state' = r.state
        /\ src' = r.src
        /\ op' = Call("decode", <<>>, 0, r.ret, r.item)
        /\ nops' = [nops EXCEPT !.yielded = @ \/ r.ret # "None"]
        /\ UNCHANGED <<raw, max_packet_length, buf, sent, connVars, portVars>>

\* The peer's frames.  The format lets a writer use any header length that holds
\* the payload length: h bytes, little-endian, of (n << 2) | (h - 1).
HeaderBytes(h, n) ==
    Norm([i \in 1..h |-> Run(IF i = 1 THEN BitOr(Shl2(n)[1], h - 1) ELSE Shl2(n)[i], 1)])

HeaderFits(h, n) ==
    n <= (IF h = 1 THEN Max1 ELSE IF h = 2 THEN Max2 ELSE IF h = 3 THEN Max3 ELSE Max4)

PeerFrame(h, data) == Norm(HeaderBytes(h, BLen(data)) \o data)

\* A stream of frames: at most this many payloads, encoded back to back
MaxFrames == 2

StreamLens == {0, 1, Max1 + 1, Max2 + 1, Max3 + 1}

StreamPayloads == {Payload(len, p) : len \in StreamLens, p \in Patterns}

Streams == UNION {[1..n -> StreamPayloads] : n \in 1..MaxFrames}

\* what a framed encoder has appended to b after encoding the payloads ps in order
RECURSIVE EncodeAll(_, _)
EncodeAll(ps, b) ==
    IF ps = <<>> THEN b ELSE EncodeAll(Tail(ps), encode(new, Head(ps), b).buf)

CodecNext ==
    \/ set_raw
    \/ \E n \in PacketLimits : set_max_packet_length(n)
    \/ \E data \in Payloads : Encode(data)
    \/ \E k \in Cuts(buf) : Recv(k)
    \/ Decode

-----------------------------------------------------------------------------
(* socket_client.rs *)

\* Option::None, for a SocketAddr, a target and the proxy's settings alike
None == [kind |-> "none", fam |-> "none", name |-> ""]

\* SocketAddr
SockAddr(fam, name) == [kind |-> "addr", fam |-> fam, name |-> name]

\* a target given as text: a host name with a port, or text that is no address
StrTarget(name) == [kind |-> "str", fam |-> "none", name |-> name]

\* what the resolver and a connection's peer_addr can answer
AddrPool == {SockAddr("v4", "203.0.113.7:21116"), SockAddr("v6", "[2001:db8::7]:21116")}

\* the NAT64 addresses nip.io can answer with
Nat64Pool == {SockAddr("v4", "203.0.113.7:21116"), SockAddr("v6", "[64:ff9b::cb00:7107]:21116")}

\* the targets a caller passes: resolved, or text
StrTargets == {StrTarget("rs.example.com:21116"), StrTarget("rs.example.com")}
Targets == AddrPool \cup StrTargets

\* the local addresses a caller binds to
Locals == {None, SockAddr("v4", "0.0.0.0:0"), SockAddr("v6", "[::]:0")}

\* the proxy settings the configuration can hold
SocksConfs == {[kind |-> "socks", fam |-> "none", name |-> "proxy.example.com:1080"]}

\* answers of one lookup: at most this many addresses
MaxAddrs == 2

Answers(pool) ==
    {a \in UNION {[1..n -> pool] : n \in 0..MaxAddrs} :
        \A i, j \in DOMAIN a : i # j => a[i] # a[j]}

\* IsResolvedSocketAddr::resolve: Some(addr) for a SocketAddr, None for text
resolve(target) == IF target.kind = "addr" THEN target ELSE None

\* IntoTargetAddr::into_target_addr on text: a host name needs its port
ParsesAsTarget(target) == target.kind = "addr" \/ target.name = "rs.example.com:21116"

\* Config::get_socks
get_socks(c) == c.socks

\* Config::get_network_type: Direct when no proxy is configured
get_network_type(c) == IF c.socks = None THEN "Direct" ELSE "ProxySocks"

\* Config::get_any_listen_addr(ipv4): the any-address of that family
get_any_listen_addr(ipv4) ==
    IF ipv4 THEN SockAddr("v4", "0.0.0.0:0") ELSE SockAddr("v6", "[::]:0")

is_ipv4(a) == a.fam = "v4"
is_ipv6(a) == a.fam = "v6"

\* one collaborator call: which, with what, and how it ended
Ev(f, target, local, proxy, out, addrs) ==
    [f |-> f, target |-> target, local |-> local, proxy |-> proxy, out |-> out, addrs |-> addrs]

Idle == [fn |-> "idle", pc |-> "done", target |-> None, local |-> None,
         conf |-> None, nt |-> "", addr |-> None, ipv4 |-> TRUE, tgt |-> None,
         test_with_proxy |-> FALSE]

NoRes == [kind |-> "", target |-> None, err |-> ""]
Ok(target) == [kind |-> "Ok", target |-> target, err |-> ""]
Err(e) == [kind |-> "Err", target |-> None, err |-> e]

\* the configuration is changed elsewhere in the process, at any time
SetConfig(socks) ==
    /\ config.socks # socks
    /\ config' = [socks |-> socks]
    /\ UNCHANGED <<task, io, res, codecVars, portVars>>

\* a caller starts one of the calls
Invoke(fn, target, local) ==
    /\ task.pc = "done"
    /\ task' = [Idle EXCEPT !.fn = fn, !.pc = fn, !.target = target, !.local = local]
    /\ io' = <<>>
    /\ res' = NoRes
    /\ UNCHANGED <<config, codecVars, portVars>>

Return(r) ==
    /\ res' = r
    /\ task' = [task EXCEPT !.pc = "done"]

\* connect_tcp_local asking for the proxy only after the NAT64 case
connect_tcp_local_nat64_first ==
    /\ task.pc = "connect_tcp_local"
    /\ LET conf == get_socks(config)
           nat64 == /\ resolve(task.target) # None
                    /\ task.local # None
                    /\ is_ipv6(task.local) /\ is_ipv4(resolve(task.target))
       IN
        /\ task' = [task EXCEPT
              !.conf = conf,
              !.pc = IF nat64 THEN "query_nip_io"
                     ELSE IF conf # None THEN "FramedStream::connect"
                     ELSE "FramedStream::new",
              !.tgt = IF conf = None \/ nat64 THEN task.target ELSE @]
    /\ UNCHANGED <<config, io, res, codecVars, portVars>>

\* connect_tcp_local, up to its first await
connect_tcp_local ==
    /\ task.pc = "connect_tcp_local"
    /\ LET conf == get_socks(config) IN
        /\ task' = [task EXCEPT
              !.conf = conf,
              !.pc = IF conf # None THEN "FramedStream::connect"
                     ELSE IF /\ resolve(task.target) # None
                             /\ task.local # None
                             /\ is_ipv6(task.local) /\ is_ipv4(resolve(task.target))
                     THEN "query_nip_io"
                     ELSE "FramedStream::new",
              !.tgt = IF conf = None THEN task.target ELSE @]
    /\ UNCHANGED <<config, io, res, codecVars, portVars>>

\* FramedStream::connect(target, local, &conf, ms_timeout) ends; its result is returned
FramedStream_connect(out) ==
    /\ task.pc = "FramedStream::connect"
    /\ io' = Append(io, Ev("FramedStream::connect", task.target, task.local, task.conf, out, <<>>))
    /\ Return(IF out = "Ok" THEN Ok(task.target) ELSE Err("FramedStream::connect"))
    /\ UNCHANGED <<config, codecVars, portVars>>

\* query_nip_io taking the lookup's first answer, whatever its family
query_nip_io_first(out, addrs) ==
    /\ task.pc = "query_nip_io"
    /\ io' = Append(io, Ev("lookup_host:nip.io", resolve(task.target), None, None, out, addrs))
    /\ IF out # "Ok"
       THEN Return(Err("lookup_host"))
       ELSE IF addrs = <<>>
       THEN Return(Err("Failed to get ipv6 from nip.io"))
       ELSE /\ task' = [task EXCEPT !.pc = "FramedStream::new", !.tgt = addrs[1]]
            /\ UNCHANGED res
    /\ UNCHANGED <<config, codecVars, portVars>>

\* query_nip_io: the lookup of "<ip>.nip.io:<port>" ends, and its first IPv6 answer is taken
query_nip_io(out, addrs) ==
    /\ task.pc = "query_nip_io"
    /\ io' = Append(io, Ev("lookup_host:nip.io", resolve(task.target), None, None, out, addrs))
    /\ IF out # "Ok"
       THEN Return(Err("lookup_host"))
       ELSE IF \A i \in DOMAIN addrs : ~is_ipv6(addrs[i])
       THEN Return(Err("Failed to get ipv6 from nip.io"))
       ELSE /\ task' = [task EXCEPT
                 !.pc = "FramedStream::new",
                 !.tgt = addrs[CHOOSE i \in DOMAIN addrs :
                                 /\ is_ipv6(addrs[i])
                                 /\ \A j \in 1..(i - 1) : ~is_ipv6(addrs[j])]]
            /\ UNCHANGED res
    /\ UNCHANGED <<config, codecVars, portVars>>

\* FramedStream::new(target, local, ms_timeout) ends; its result is returned
FramedStream_new(out) ==
    /\ task.pc = "FramedStream::new"
    /\ io' = Append(io, Ev("FramedStream::new", task.tgt, task.local, None, out, <<>>))
    /\ Return(IF out = "Ok" THEN Ok(task.tgt) ELSE Err("FramedStream::new"))
    /\ UNCHANGED <<config, codecVars, portVars>>

\* test_target: the probe connection (at most 1000 ms) ends
test_target_connect(out, peer) ==
    /\ task.pc = "test_target"
    /\ io' = Append(io, Ev("TcpStream::connect", task.target, None, None, out, <<peer>>))
    /\ task' = IF out = "Ok" /\ peer # None
               THEN [task EXCEPT !.addr = peer, !.pc = "probed"]
               ELSE [task EXCEPT !.pc = "lookup_host"]
    /\ UNCHANGED <<config, res, codecVars, portVars>>

\* test_target taking the last answer of the lookup
test_target_lookup_last(out, addrs) ==
    /\ task.pc = "lookup_host"
    /\ io' = Append(io, Ev("lookup_host", task.target, None, None, out, addrs))
    /\ IF out # "Ok"
       THEN Return(Err("lookup_host"))
       ELSE IF addrs = <<>>
       THEN Return(Err("Failed to look up host"))
       ELSE /\ task' = [task EXCEPT !.addr = addrs[Len(addrs)], !.pc = "probed"]
            /\ UNCHANGED res
    /\ UNCHANGED <<config, codecVars, portVars>>

\* test_target: the lookup of the target ends, and its first answer is taken
test_target_lookup(out, addrs) ==
    /\ task.pc = "lookup_host"
    /\ io' = Append(io, Ev("lookup_host", task.target, None, None, out, addrs))
    /\ IF out # "Ok"
       THEN Return(Err("lookup_host"))
       ELSE IF addrs = <<>>
       THEN Return(Err("Failed to look up host"))
       ELSE /\ task' = [task EXCEPT !.addr = addrs[1], !.pc = "probed"]
            /\ UNCHANGED res
    /\ UNCHANGED <<config, codecVars, portVars>>

\* new_udp_for probing the peer whatever the network type is
new_udp_for_probes_always ==
    /\ task.pc = "new_udp_for"
    /\ task' = [task EXCEPT !.nt = get_network_type(config), !.pc = "test_target"]
    /\ UNCHANGED <<config, io, res, codecVars, portVars>>

\* new_udp_for, up to its first await
new_udp_for ==
    /\ task.pc = "new_udp_for"
    /\ LET nt == get_network_type(config) IN
        IF nt = "Direct"
        THEN /\ task' = [task EXCEPT !.nt = nt, !.pc = "test_target"]
             /\ UNCHANGED res
        ELSE IF ParsesAsTarget(task.target)
        THEN /\ task' = [task EXCEPT !.nt = nt, !.ipv4 = TRUE, !.tgt = task.target,
                                     !.pc = "new_udp"]
             /\ UNCHANGED res
        ELSE /\ res' = Err("into_target_addr")
             /\ task' = [task EXCEPT !.nt = nt, !.pc = "done"]
    /\ UNCHANGED <<config, io, codecVars, portVars>>

\* new_udp_for binding IPv4 after the probe, as its proxy branch does
new_udp_for_probed_v4 ==
    /\ task.fn = "new_udp_for"
    /\ task.pc = "probed"
    /\ task' = [task EXCEPT !.ipv4 = TRUE, !.tgt = task.addr, !.pc = "new_udp"]
    /\ UNCHANGED <<config, io, res, codecVars, portVars>>

\* new_udp_for, after test_target returned addr
new_udp_for_probed ==
    /\ task.fn = "new_udp_for"
    /\ task.pc = "probed"
    /\ task' = [task EXCEPT !.ipv4 = is_ipv4(task.addr), !.tgt = task.addr, !.pc = "new_udp"]
    /\ UNCHANGED <<config, io, res, codecVars, portVars>>

\* new_udp's bind: plain when get_socks is None, through the proxy otherwise
new_udp_bind(local, conf, out) ==
    IF conf = None
    THEN Ev("FramedSocket::new", None, local, None, out, <<>>)
    ELSE Ev("FramedSocket::new_proxy", None, local, conf, out, <<>>)

\* new_udp(Config::get_any_listen_addr(ipv4), ms_timeout): the bind ends
new_udp(out) ==
    /\ task.pc = "new_udp"
    /\ io' = Append(io, new_udp_bind(get_any_listen_addr(task.ipv4), get_socks(config), out))
    /\ Return(IF out = "Ok" THEN Ok(task.tgt) ELSE Err("bind"))
    /\ UNCHANGED <<config, codecVars, portVars>>

\* rebind_udp_for probing whatever the network type is
rebind_udp_for_always ==
    /\ task.pc = "rebind_udp_for"
    /\ task' = [task EXCEPT !.nt = get_network_type(config), !.pc = "test_target"]
    /\ UNCHANGED <<config, io, res, codecVars, portVars>>

\* rebind_udp_for, up to its first await
rebind_udp_for ==
    /\ task.pc = "rebind_udp_for"
    /\ LET nt == get_network_type(config) IN
        IF nt # "Direct"
        THEN /\ res' = [kind |-> "None", target |-> None, err |-> ""]
             /\ task' = [task EXCEPT !.nt = nt, !.pc = "done"]
        ELSE /\ task' = [task EXCEPT !.nt = nt, !.pc = "test_target"]
             /\ UNCHANGED res
    /\ UNCHANGED <<config, io, codecVars, portVars>>

\* rebind_udp_for binding the IPv4 any-address whatever the probe found
rebind_udp_for_probed_v4(out) ==
    /\ task.fn = "rebind_udp_for"
    /\ task.pc = "probed"
    /\ io' = Append(io, Ev("FramedSocket::new", None, get_any_listen_addr(TRUE), None, out, <<>>))
    /\ res' = IF out = "Ok" THEN Ok(task.addr) ELSE Err("bind")
    /\ task' = [task EXCEPT !.ipv4 = TRUE, !.tgt = task.addr, !.pc = "done"]
    /\ UNCHANGED <<config, codecVars, portVars>>

\* rebind_udp_for, after test_target returned addr: the bind ends
rebind_udp_for_probed(out) ==
    /\ task.fn = "rebind_udp_for"
    /\ task.pc = "probed"
    /\ LET v4 == is_ipv4(task.addr) IN
        /\ io' = Append(io, Ev("FramedSocket::new", None, get_any_listen_addr(v4), None, out, <<>>))
        /\ res' = IF out = "Ok" THEN Ok(task.addr) ELSE Err("bind")
        /\ task' = [task EXCEPT !.ipv4 = v4, !.tgt = task.addr, !.pc = "done"]
    /\ UNCHANGED <<config, codecVars, portVars>>

Outcomes == {"Ok", "Err"}

-----------------------------------------------------------------------------
(* socket_client.rs: increase_port.  Text is a sequence of one-character strings. *)

\* i32::MAX and i32::MIN
I32Max == 2147483647
I32Min == -I32Max - 1

Digits == <<"0", "1", "2", "3", "4", "5", "6", "7", "8", "9">>
IsDigit(c) == \E d \in 1..10 : Digits[d] = c
DigitVal(c) == (CHOOSE d \in 1..10 : Digits[d] = c) - 1

\* str::contains(c) and str::starts_with(c)
contains(s, c) == \E i \in DOMAIN s : s[i] = c
starts_with(s, c) == s # <<>> /\ s[1] = c

\* str::split(pat): the text between the occurrences of pat, found left to right
RECURSIVE split(_, _)
split(s, pat) ==
    LET n == Len(pat)
        hits == {i \in 1..(Len(s) - n + 1) : SubSeq(s, i, i + n - 1) = pat}
    IN  IF hits = {} THEN <<s>>
        ELSE LET i == CHOOSE h \in hits : \A g \in hits : h <= g
             IN  <<SubSeq(s, 1, i - 1)>> \o split(SubSeq(s, i + n, Len(s)), pat)

\* the digits of str::parse::<i32>, accumulated as the standard library does:
\* checked acc * 10 + d, or acc * 10 - d after a minus sign
RECURSIVE ParseDigits(_, _, _)
ParseDigits(s, acc, neg) ==
    IF s = <<>> THEN [ok |-> TRUE, v |-> acc]
    ELSE IF ~IsDigit(s[1]) THEN [ok |-> FALSE, v |-> 0]
    ELSE LET d == DigitVal(s[1]) IN
         IF neg
         THEN IF acc < (I32Min + d + 9) \div 10
              THEN [ok |-> FALSE, v |-> 0]
              ELSE ParseDigits(Tail(s), acc * 10 - d, neg)
         ELSE IF acc > (I32Max - d) \div 10
              THEN [ok |-> FALSE, v |-> 0]
              ELSE ParseDigits(Tail(s), acc * 10 + d, neg)

\* str::parse::<i32>: an optional sign and at least one digit, within i32
parse_i32(s) ==
    IF s = <<>> THEN [ok |-> FALSE, v |-> 0]
    ELSE IF s[1] \in {"+", "-"}
    THEN IF Len(s) = 1 THEN [ok |-> FALSE, v |-> 0]
         ELSE ParseDigits(Tail(s), 0, s[1] = "-")
    ELSE ParseDigits(s, 0, FALSE)

\* format!("{}", v) of an i32
RECURSIVE DecNat(_)
DecNat(n) == IF n < 10 THEN <<Digits[n + 1]>> ELSE DecNat(n \div 10) \o <<Digits[(n % 10) + 1]>>

RECURSIVE DecNeg(_)
DecNeg(v) ==
    LET d == (10 - (v % 10)) % 10
        q == (v + d) \div 10
    IN  IF q = 0 THEN <<Digits[d + 1]>> ELSE DecNeg(q) \o <<Digits[d + 1]>>

to_string(v) == IF v >= 0 THEN DecNat(v) ELSE <<"-">> \o DecNeg(v)

\* port + offset on i32, port > 0.  Past i32::MAX the build decides: a panic with
\* overflow checks (debug), the sum wrapped to 32 bits without (release).
add_i32(port, offset, overflow_checks) ==
    IF offset > 0 /\ port > I32Max - offset
    THEN IF overflow_checks
         THEN [panic |-> TRUE, v |-> 0]
         ELSE [panic |-> FALSE, v |-> (port - I32Max - 1) + (offset - I32Max - 1)]
    ELSE [panic |-> FALSE, v |-> port + offset]

HexChars == {Digits[d] : d \in 1..10} \cup {"a", "b", "c", "d", "e", "f", "A", "B", "C", "D", "E", "F"}

\* crate::is_ipv6_str: an IPv6 literal by its looks: hex digits and at least two
\* colons, bare, or in brackets with or without a port after them
IsBareIpv6(s) ==
    /\ \A i \in DOMAIN s : s[i] \in HexChars \cup {":"}
    /\ Cardinality({i \in DOMAIN s : s[i] = ":"}) >= 2

is_ipv6_str(s) ==
    \/ IsBareIpv6(s)
    \/ /\ starts_with(s, "[")
       /\ \E i \in DOMAIN s :
            /\ s[i] = "]"
            /\ IsBareIpv6(SubSeq(s, 2, i - 1))
            /\ \/ i = Len(s)
               \/ /\ i + 1 < Len(s)
                  /\ s[i + 1] = ":"
                  /\ \A j \in (i + 2)..Len(s) : IsDigit(s[j])

\* increase_port: the text returned, or the panic
increase_port(host, offset, overflow_checks) ==
    LET unwrap_or_0(r) == IF r.ok THEN r.v ELSE 0
        v6 == split(host, <<"]", ":">>)
        other == split(host, <<":">>)
        sum(tmp) == add_i32(unwrap_or_0(parse_i32(tmp[2])), offset, overflow_checks)
    IN  IF is_ipv6_str(host)
        THEN IF starts_with(host, "[") /\ Len(v6) = 2 /\ unwrap_or_0(parse_i32(v6[2])) > 0
             THEN IF sum(v6).panic THEN [panic |-> TRUE, s |-> <<>>]
                  ELSE [panic |-> FALSE, s |-> v6[1] \o <<"]", ":">> \o to_string(sum(v6).v)]
             ELSE [panic |-> FALSE, s |-> host]
        ELSE IF contains(host, ":") /\ Len(other) = 2 /\ unwrap_or_0(parse_i32(other[2])) > 0
             THEN IF sum(other).panic THEN [panic |-> TRUE, s |-> <<>>]
                  ELSE [panic |-> FALSE, s |-> other[1] \o <<":">> \o to_string(sum(other).v)]
             ELSE [panic |-> FALSE, s |-> host]

\* the hosts increase_port is called with: each start with each end
HostStarts ==
    { <<"1", "0", ".", "0", ".", "0", ".", "1">>,
      <<"e", "x", "a", "m", "p", "l", "e", ".", "c", "o", "m">>,
      <<"[", ":", ":", "1", "]">>,
      <<":", ":", "1">>,
      <<"[", "h", "]">>,
      <<"x", ":", "y">>,
      <<>> }

HostEnds ==
    { <<>>,
      <<":">>,
      <<":", "8", "0", "0", "0">>,
      <<":", "0", "8", "0">>,
      <<":", "0">>,
      <<":", "-", "1">>,
      <<":", "+", "8", "0">>,
      <<":", "x">>,
      <<":", "6", "5", "5", "3", "5">>,
      <<":", "2", "1", "4", "7", "4", "8", "3", "6", "4", "7">>,
      <<":", "2", "1", "4", "7", "4", "8", "3", "6", "4", "8">> }

Hosts == {a \o b : a \in HostStarts, b \in HostEnds}

Offsets == {1, 5, -1}

NoCall == [host |-> <<>>, offset |-> 0, overflow_checks |-> FALSE, called |-> FALSE]
NoOut == [done |-> FALSE, panic |-> FALSE, s |-> <<>>]

\* a call of increase_port(host, offset) runs
IncreasePort ==
    /\ port_in.called
    /\ ~port_out.done
    /\ LET r == increase_port(port_in.host, port_in.offset, port_in.overflow_checks) IN
        port_out' = [done |-> TRUE, panic |-> r.panic, s |-> r.s]
    /\ UNCHANGED <<port_in, codecVars, connVars>>

-----------------------------------------------------------------------------
(* socket_client.rs: check_port and test_if_valid_server *)

\* a host given as text, character by character
TextTarget(text) == [kind |-> "text", fam |-> "none", name |-> "", text |-> text]

\* check_port: the host with the port, unless it carries one already
check_port(host, port) ==
    IF is_ipv6_str(host)
    THEN IF starts_with(host, "[") THEN host
         ELSE <<"[">> \o host \o <<"]", ":">> \o to_string(port)
    ELSE IF ~contains(host, ":") THEN host \o <<":">> \o to_string(port)
    ELSE host

\* how a check ends: Ok, or the error's message
CheckOutcomes == {"Ok", "invalid socket address", "failed to lookup address information"}

\* the hosts test_if_valid_server is called with
CheckedHosts == {a \o b : a \in HostStarts, b \in {<<>>, <<":", "8", "0", "0", "0">>}}

\* test_if_valid_server_for_proxy_: host.into_target_addr() ended with out
test_if_valid_server_for_proxy_(host, out) ==
    [ev |-> Ev("into_target_addr", TextTarget(host), None, None, out, <<>>),
     ret |-> IF out = "Ok" THEN "" ELSE out]

\* test_if_valid_server asking the proxy's check whatever test_with_proxy is
test_if_valid_server_ignores_flag(host, test_with_proxy, c, out) ==
    LET h == check_port(host, 0) IN
    IF "ProxySocks" = get_network_type(c)
    THEN test_if_valid_server_for_proxy_(h, out)
    ELSE [ev |-> Ev("to_socket_addrs", TextTarget(h), None, None, out, <<>>),
          ret |-> IF out = "Ok" THEN "" ELSE out]

\* test_if_valid_server: the check made, which ended with out, and the text returned
test_if_valid_server(host, test_with_proxy, c, out) ==
    LET h == check_port(host, 0) IN
    IF test_with_proxy /\ "ProxySocks" = get_network_type(c)
    THEN test_if_valid_server_for_proxy_(h, out)
    ELSE [ev |-> Ev("to_socket_addrs", TextTarget(h), None, None, out, <<>>),
          ret |-> IF out = "Ok" THEN "" ELSE out]

\* a call of test_if_valid_server(host, test_with_proxy)
TestIfValidServer(host, test_with_proxy, out) ==
    /\ task.pc = "done"
    /\ LET r == test_if_valid_server(host, test_with_proxy, config, out) IN
        /\ task' = [Idle EXCEPT !.fn = "test_if_valid_server", !.target = TextTarget(host),
                                !.test_with_proxy = test_with_proxy]
        /\ io' = <<r.ev>>
        /\ res' = [kind |-> "String", target |-> None, err |-> r.ret]
    /\ UNCHANGED <<config, codecVars, portVars>>

ConnNext ==
    \/ \E socks \in SocksConfs \cup {None} : SetConfig(socks)
    \/ \E target \in Targets : \E local \in Locals : Invoke("connect_tcp_local", target, local)
    \/ \E target \in StrTargets : Invoke("new_udp_for", target, None)
    \/ \E target \in StrTargets : Invoke("rebind_udp_for", target, None)
    \/ connect_tcp_local
    \/ \E out \in Outcomes : FramedStream_connect(out)
    \/ \E out \in Outcomes : \E addrs \in Answers(Nat64Pool) :
            (out = "Ok" \/ addrs = <<>>) /\ query_nip_io(out, addrs)
    \/ \E out \in Outcomes : FramedStream_new(out)
    \/ \E out \in {"Ok", "Err", "Timeout"} : \E peer \in AddrPool \cup {None} :
            (out = "Ok" \/ peer = None) /\ test_target_connect(out, peer)
    \/ \E out \in Outcomes : \E addrs \in Answers(AddrPool) :
            (out = "Ok" \/ addrs = <<>>) /\ test_target_lookup(out, addrs)
    \/ new_udp_for
    \/ new_udp_for_probed
    \/ \E out \in Outcomes : new_udp(out)
    \/ rebind_udp_for
    \/ \E out \in Outcomes : rebind_udp_for_probed(out)
    \/ \E host \in CheckedHosts : \E test_with_proxy \in BOOLEAN : \E out \in CheckOutcomes :
            TestIfValidServer(host, test_with_proxy, out)

-----------------------------------------------------------------------------
(* Specifications *)

vars == <<codecVars, connVars, portVars>>

\* a codec as BytesCodec::new leaves it, its buffers empty; no call in progress
Init ==
    /\ state = new.state
    /\ raw = new.raw
    /\ max_packet_length = new.max_packet_length
    /\ src = <<>>
    /\ buf = <<>>
    /\ nops = [encode |-> 0, recv |-> 0, yielded |-> FALSE]
    /\ op = Call("new", <<>>, 0, "", <<>>)
    /\ sent = <<>>
    /\ config = [socks |-> None]
    /\ task = Idle
    /\ io = <<>>
    /\ res = NoRes
    /\ port_in = NoCall
    /\ port_out = NoOut

\* a connection on which the peer has written one frame, with a header length of
\* its choice, before this end reads
PeerInit ==
    /\ state = new.state
    /\ raw = new.raw
    /\ max_packet_length = new.max_packet_length
    /\ src = <<>>
    /\ \E h \in 1..4 : \E data \in Payloads :
          /\ HeaderFits(h, BLen(data))
          /\ buf = PeerFrame(h, data)
          /\ sent = <<data>>
    /\ nops = [encode |-> 0, recv |-> 0, yielded |-> FALSE]
    /\ op = Call("new", <<>>, 0, "", <<>>)
    /\ config = [socks |-> None]
    /\ task = Idle
    /\ io = <<>>
    /\ res = NoRes
    /\ port_in = NoCall
    /\ port_out = NoOut

PeerNext ==
    \/ set_raw
    \/ \E n \in PacketLimits : set_max_packet_length(n)
    \/ \E k \in Cuts(buf) : Recv(k)
    \/ Decode

\* one connection's codec: encode, transport, decode
Next == CodecNext
Spec == Init /\ [][Next]_vars

\* the codec reading what a peer wrote
SpecPeer == PeerInit /\ [][PeerNext]_vars

\* socket_client's calls, the configuration changing under them
SpecConn == Init /\ [][ConnNext]_vars

\* a stream of frames on the wire, read and decoded by a framed codec
StreamInit ==
    /\ state = new.state
    /\ raw = new.raw
    /\ max_packet_length = new.max_packet_length
    /\ src = <<>>
    /\ \E ps \in Streams :
          /\ buf = EncodeAll(ps, <<>>)
          /\ sent = ps
    /\ nops = [encode |-> 0, recv |-> 0, yielded |-> FALSE]
    /\ op = Call("new", <<>>, 0, "", <<>>)
    /\ config = [socks |-> None]
    /\ task = Idle
    /\ io = <<>>
    /\ res = NoRes
    /\ port_in = NoCall
    /\ port_out = NoOut

StreamNext ==
    \/ \E k \in Cuts(buf) : Recv(k)
    \/ Decode

SpecStream == StreamInit /\ [][StreamNext]_vars

\* a call of increase_port, in a build with or without overflow checks
PortInit ==
    /\ state = new.state
    /\ raw = new.raw
    /\ max_packet_length = new.max_packet_length
    /\ src = <<>>
    /\ buf = <<>>
    /\ nops = [encode |-> 0, recv |-> 0, yielded |-> FALSE]
    /\ op = Call("new", <<>>, 0, "", <<>>)
    /\ sent = <<>>
    /\ config = [socks |-> None]
    /\ task = Idle
    /\ io = <<>>
    /\ res = NoRes
    /\ \E host \in Hosts : \E offset \in Offsets : \E checks \in BOOLEAN :
          port_in = [host |-> host, offset |-> offset, overflow_checks |-> checks,
                     called |-> TRUE]
    /\ port_out = NoOut

SpecPort == PortInit /\ [][IncreasePort]_vars

-----------------------------------------------------------------------------
(* Claims about the codec *)

\* the header length the format's table gives a payload of len bytes
TableHeaderLen(len) ==
    IF len <= 63 THEN 1 ELSE IF len <= 16383 THEN 2 ELSE IF len <= 4194303 THEN 3 ELSE 4

\* a codec as BytesCodec::new leaves it
Fresh(c) == c.state = StHead /\ c.raw = FALSE /\ c.max_packet_length = UsizeMax

\* what encode writes for payload p into an empty buffer
WholeFrame(p) == encode(new, p, <<>>).buf

\* the header at the front of s: its length (bits 0-1 of the first byte, plus 1),
\* whether all of it is in s, and the payload length it states
HeaderLen(s) == (At(s, 0) % 4) + 1
HeaderComplete(s) == s # <<>> /\ BLen(s) >= HeaderLen(s)
HeaderByte(s, i) == IF i < HeaderLen(s) THEN At(s, i) ELSE 0
StatedLen(s) ==
    (HeaderByte(s, 0) \div 4) + HeaderByte(s, 1) * 64 + HeaderByte(s, 2) * 16384
        + HeaderByte(s, 3) * 4194304

\* C1: (round trip) a payload of at most 0x3FFFFFFF bytes encoded into an empty
\* buffer gets the header of the table's (minimal) length, whose two low bits are
\* that length minus one; and a fresh codec's decode of exactly those bytes returns
\* the payload, empties the buffer and is back in Head.
C1_RoundTrip ==
    /\ (op.name = "encode" /\ ~op.pre.raw /\ op.pre.buf = <<>> /\ BLen(op.data) <= Max4)
        => /\ op.ret = "Ok"
           /\ BLen(buf) = TableHeaderLen(BLen(op.data)) + BLen(op.data)
           /\ At(buf, 0) % 4 = TableHeaderLen(BLen(op.data)) - 1
    /\ (op.name = "decode" /\ Fresh(op.pre) /\ Len(sent) = 1
            /\ op.pre.src = WholeFrame(sent[1]))
        => /\ op.ret = "Some"
           /\ op.item = sent[1]
           /\ src = <<>>
           /\ state = StHead

\* C1's case: the largest payload, 0x3FFFFFFF bytes, came back from one decode
C1_Witness ==
    /\ op.name = "decode" /\ Fresh(op.pre) /\ Len(sent) = 1
    /\ op.pre.src = WholeFrame(sent[1])
    /\ BLen(sent[1]) = Max4
    /\ op.item = sent[1]

\* the one frame written is still to be decoded: no decode has returned an item
\* or an error yet, and its length is within the limit when its header is read
Pending(c) ==
    /\ Len(sent) = 1
    /\ ~c.raw
    /\ ~c.yielded
    /\ c.state = StHead => BLen(sent[1]) <= c.max_packet_length

\* C2: (partial reads) with one frame written, however the frame's bytes are cut
\* into chunks, a framed decode called while part of the frame is still to come
\* returns None, and the decode after the last chunk returns what one decode over
\* the whole frame returns.
C2_PartialRead ==
    (op.name = "decode" /\ Pending(op.pre))
    => IF op.pre.buf # <<>>
       THEN op.ret = "None"
       ELSE /\ op.ret = "Some"
            /\ op.item = decode(new, WholeFrame(sent[1])).item
            /\ src = <<>>
            /\ state = StHead

\* C2's case: a frame with a 3 byte header arrived in three chunks, the header cut
C2_Witness ==
    /\ op.name = "decode" /\ Pending(op.pre)
    /\ nops.recv = 3
    /\ op.pre.state.tag = "Data"
    /\ BLen(sent[1]) > Max2
    /\ op.ret = "Some"

\* C3: (oversized rejection) a framed decode in Head over a complete header that
\* states a length above max_packet_length returns the error, returns no item,
\* and leaves buffer and state as they were; a header that states a length of at
\* most max_packet_length gets no error.
C3_Oversized ==
    (op.name = "decode" /\ ~op.pre.raw /\ op.pre.state = StHead /\ HeaderComplete(op.pre.src))
    => IF StatedLen(op.pre.src) > op.pre.max_packet_length
       THEN /\ op.ret = "Err"
            /\ op.item = <<>>
            /\ src = op.pre.src
            /\ state = StHead
       ELSE op.ret # "Err"

\* C3's case: decode returned the error
C3_Witness ==
    /\ op.name = "decode" /\ op.ret = "Err"
    /\ StatedLen(op.pre.src) = op.pre.max_packet_length + 1

\* C4: (raw mode) once raw is set it stays set; every decode returns the whole
\* buffer as one item and empties it, or None on an empty buffer; every encode
\* succeeds and appends the payload alone; none of them changes the Head/Data
\* state, whatever that state and max_packet_length are.
C4_RawPassthrough ==
    op.pre.raw =>
        /\ raw
        /\ state = op.pre.state
        /\ op.name = "decode" =>
            IF op.pre.src # <<>>
            THEN op.ret = "Some" /\ op.item = op.pre.src /\ src = <<>>
            ELSE op.ret = "None" /\ src = <<>>
        /\ op.name = "encode" =>
            /\ op.ret = "Ok"
            /\ buf = Norm(op.pre.buf \o op.data)

\* C4's case: raw was set in the middle of a frame, under a packet limit, and the
\* next decode returned the bytes buffered, which a framed decode would withhold
C4_Witness ==
    /\ op.pre.raw /\ op.name = "decode" /\ op.ret = "Some"
    /\ op.pre.state.tag = "Data"
    /\ BLen(op.pre.src) < op.pre.state.n
    /\ op.pre.max_packet_length # UsizeMax

\* C8: (encode overflow) a framed encode of more than 0x3FFFFFFF bytes returns
\* the error and leaves the buffer as it was; any other framed encode succeeds and
\* appends header_len + len bytes: the header, then the payload.
C8_EncodeOverflow ==
    (op.name = "encode" /\ ~op.pre.raw) =>
        LET len == BLen(op.data)
            old == BLen(op.pre.buf)
        IN  IF len > Max4
            THEN op.ret = "Err" /\ buf = op.pre.buf
            ELSE /\ op.ret = "Ok"
                 /\ BLen(buf) = old + TableHeaderLen(len) + len
                 /\ SplitTo(buf, old) = op.pre.buf
                 /\ Advance(buf, old + TableHeaderLen(len)) = op.data

\* C8's case: encode refused a payload of 0x40000000 bytes
C8_Witness ==
    /\ op.name = "encode" /\ ~op.pre.raw /\ op.ret = "Err"
    /\ BLen(op.data) = Max4 + 1

StartsWith(s, t) == BLen(s) >= BLen(t) /\ SplitTo(s, BLen(t)) = t

\* C9: (non-minimal headers) a framed decode in Head over a buffer that starts
\* with an h byte header (h in 1..4) stating a length n that h bytes can hold,
\* n <= max_packet_length, and that holds the n payload bytes after it, returns
\* exactly those n bytes, consumes header and payload and is back in Head: also
\* when fewer than h bytes could have held n.
C9_NonMinimalHeader ==
    (op.name = "decode" /\ ~op.pre.raw /\ op.pre.state = StHead)
    => \A h \in 1..4 : \A n \in PayloadLens :
        (/\ HeaderFits(h, n)
         /\ n <= op.pre.max_packet_length
         /\ StartsWith(op.pre.src, HeaderBytes(h, n))
         /\ BLen(op.pre.src) >= h + n)
        => /\ op.ret = "Some"
           /\ op.item = SplitTo(Advance(op.pre.src, h), n)
           /\ op.item = sent[1]
           /\ src = Advance(op.pre.src, h + n)
           /\ state = StHead

\* C9's case: a 63 byte payload came back from under a 4 byte header
C9_Witness ==
    /\ op.name = "decode" /\ ~op.pre.raw /\ op.pre.state = StHead
    /\ StartsWith(op.pre.src, HeaderBytes(4, Max1))
    /\ op.ret = "Some"
    /\ BLen(op.item) = Max1

-----------------------------------------------------------------------------
(* Claims about socket_client *)

IsBind(e) == e.f \in {"FramedSocket::new", "FramedSocket::new_proxy"}

\* C5: (NAT64 bypass) when get_socks returned a proxy at the start of
\* connect_tcp_local, the call makes one collaborator call only,
\* FramedStream::connect with the caller's target and local address and that
\* proxy, and returns its result: no nip.io lookup and no direct connect,
\* whatever the families of target and local address.
C5_Nat64Bypass ==
    (task.fn = "connect_tcp_local" /\ task.conf # None)
    => /\ Len(io) <= 1
       /\ \A i \in DOMAIN io :
            io[i] = Ev("FramedStream::connect", task.target, task.local, task.conf,
                       io[i].out, <<>>)
       /\ task.pc = "done" => (Len(io) = 1 /\ res.kind = io[1].out)

\* C5's case: an IPv4 target and an IPv6 local address went through the proxy
C5_Witness ==
    /\ task.fn = "connect_tcp_local" /\ task.conf # None /\ task.pc = "done"
    /\ task.target.kind = "addr" /\ is_ipv4(task.target) /\ is_ipv6(task.local)
    /\ res.kind = "Ok"

\* C6: (family-matched UDP bind) when new_udp_for read the network type Direct,
\* the socket it binds has a local address of the family of the address
\* test_target returned, and the target it returns is that address.
C6_FamilyMatchedBind ==
    (task.fn = "new_udp_for" /\ task.nt = "Direct")
    => /\ \A i \in DOMAIN io :
            IsBind(io[i]) => (io[i].local.kind = "addr" /\ io[i].local.fam = task.addr.fam)
       /\ (task.pc = "done" /\ res.kind = "Ok")
            => /\ \E i \in DOMAIN io : IsBind(io[i])
               /\ task.addr \in AddrPool
               /\ res.target = task.addr

\* C6's case: the peer was found at an IPv6 address and the socket was bound
C6_Witness ==
    /\ task.fn = "new_udp_for" /\ task.nt = "Direct" /\ task.pc = "done"
    /\ res.kind = "Ok"
    /\ is_ipv6(task.addr)

\* C10: rebind_udp_for returns None when the network type it read is not Direct,
\* and has then made no collaborator call: no probe connection, no lookup, no bind.
C10_RebindNone ==
    (task.fn = "rebind_udp_for" /\ task.nt \notin {"", "Direct"})
    => /\ task.pc = "done"
       /\ res.kind = "None"
       /\ io = <<>>

\* C10's case: rebind_udp_for returned under a proxy configuration
C10_Witness ==
    /\ task.fn = "rebind_udp_for" /\ task.nt = "ProxySocks"
    /\ task.pc = "done"

-----------------------------------------------------------------------------
(* Claims about increase_port *)

\* v = port + offset, as numbers
SumIs(v, port, offset) ==
    IF offset >= 0
    THEN v >= I32Min + offset /\ v - offset = port
    ELSE v <= I32Max + offset /\ v - offset = port

\* the host carries an explicit trailing port that parses to a positive integer:
\* host:port when it is no IPv6 literal, [v6]:port when it is a bracketed one
HostPort(host) ==
    LET sep == IF is_ipv6_str(host) THEN <<"]", ":">> ELSE <<":">>
        parts == split(host, sep)
        has == /\ is_ipv6_str(host) => starts_with(host, "[")
               /\ Len(parts) = 2
               /\ parse_i32(parts[2]).ok
               /\ parse_i32(parts[2]).v > 0
    IN  [has |-> has,
         front |-> IF has THEN parts[1] \o sep ELSE <<>>,
         port |-> IF has THEN parse_i32(parts[2]).v ELSE 0]

\* C7: (port shifting) increase_port returns the host with its port replaced by
\* port + offset exactly when the host carries an explicit trailing port that
\* parses to a positive integer, and the host unchanged in every other case.
C7_PortShift ==
    port_out.done =>
        LET hp == HostPort(port_in.host)
            out == port_out.s
            n == Len(hp.front)
        IN  /\ ~port_out.panic
            /\ IF hp.has
               THEN /\ Len(out) > n
                    /\ SubSeq(out, 1, n) = hp.front
                    /\ LET d == parse_i32(SubSeq(out, n + 1, Len(out))) IN
                        /\ d.ok
                        /\ to_string(d.v) = SubSeq(out, n + 1, Len(out))
                        /\ SumIs(d.v, hp.port, port_in.offset)
               ELSE out = port_in.host

-----------------------------------------------------------------------------
(* Claims about socket_client, continued *)

\* C11: with the network type Direct, when it is read and still when the socket
\* is bound, rebind_udp_for goes on to the same probe as new_udp_for's Direct
\* branch, and after the probe binds and returns what new_udp_for's steps bind
\* and return from there: the any-address of the probed address's family, the
\* plain bind that new_udp chooses, the probed address as the target.
C11_RebindAsNewUdp ==
    [][ /\ (task.pc = "rebind_udp_for" /\ task' # task /\ get_network_type(config) = "Direct")
            => (task'.pc = "test_target" /\ io' = io /\ res' = res)
        /\ (/\ task.fn = "rebind_udp_for" /\ task.pc = "probed" /\ task'.pc = "done"
            /\ get_network_type(config) = "Direct")
            => \E out \in Outcomes :
                 /\ io' = Append(io, new_udp_bind(get_any_listen_addr(is_ipv4(task.addr)),
                                                  get_socks(config), out))
                 /\ res' = (IF out = "Ok" THEN Ok(task.addr) ELSE Err("bind"))
      ]_vars

\* C11's case: rebind_udp_for bound a socket for a peer probed at an IPv6 address
C11_Witness ==
    /\ task.fn = "rebind_udp_for" /\ task.nt = "Direct" /\ task.pc = "done"
    /\ config.socks = None
    /\ res.kind = "Ok" /\ is_ipv6(res.target)
    /\ Len(io) > 0 /\ IsBind(io[Len(io)])

\* a call that runs test_target: new_udp_for and rebind_udp_for under Direct
Probing == task.fn \in {"new_udp_for", "rebind_udp_for"} /\ task.nt = "Direct"

\* the probe connection e gave test_target its answer: it succeeded, and, when
\* that is asked for as well, its peer address could be read
ProbeGave(e, peerRead) == e.out = "Ok" /\ (peerRead => e.addrs[1] # None)

\* test_target's order of strategies, for either reading of "the probe succeeds"
ProbeOrder(peerRead) ==
    Probing =>
      /\ task.pc = "test_target" => io = <<>>
      /\ Len(io) >= 1 => (io[1].f = "TcpStream::connect" /\ io[1].target = task.target)
      /\ \A i \in DOMAIN io :
            io[i].f = "lookup_host"
            => (i = 2 /\ ~ProbeGave(io[1], peerRead) /\ io[i].target = task.target)
      /\ (Len(io) >= 1 /\ ProbeGave(io[1], peerRead))
            => /\ task.pc # "lookup_host"
               /\ task.addr = io[1].addrs[1]
               /\ res.err \notin {"lookup_host", "Failed to look up host"}
      /\ (Len(io) >= 1 /\ ~ProbeGave(io[1], peerRead))
            => \/ task.pc = "lookup_host" /\ Len(io) = 1
               \/ /\ Len(io) >= 2 /\ io[2].f = "lookup_host"
                  /\ IF io[2].out = "Ok" /\ io[2].addrs # <<>>
                     THEN /\ task.addr = io[2].addrs[1]
                          /\ res.err \notin {"lookup_host", "Failed to look up host"}
                     ELSE /\ task.pc = "done" /\ res.kind = "Err" /\ Len(io) = 2
                          /\ res.err \in {"lookup_host", "Failed to look up host"}

\* C12 as the specification states it: the probe connection comes first; if it
\* succeeds the result is its peer address and no lookup is made; only if it
\* fails or times out is the target looked up, and the first answer returned;
\* the call fails only when the lookup fails or answers nothing.
C12_ProbeOrder_Stated == ProbeOrder(FALSE)

\* C12: the probe connection (at most 1000 ms) comes first; if it succeeds and its
\* peer address can be read, the result is that address and no lookup is made;
\* only if it fails, times out, or its peer address cannot be read is the target
\* looked up, and the first answer returned; the call fails only when the
\* lookup fails or answers nothing.
C12_ProbeOrder == ProbeOrder(TRUE)

\* C12's case: the probe timed out, the lookup answered two addresses, the first
\* of them was taken
C12_Witness ==
    /\ Probing /\ Len(io) >= 2
    /\ io[1].out = "Timeout"
    /\ io[2].f = "lookup_host" /\ Len(io[2].addrs) = 2
    /\ task.addr = io[2].addrs[1]
    /\ task.pc = "done" /\ res.kind = "Ok"

\* C13: a call of test_if_valid_server makes one check of the host with its
\* port: with test_with_proxy and a proxy network type only the parse as a proxy
\* target address, and no resolution; in every other case the resolution; and
\* it returns the empty text exactly when that check succeeded, the error's
\* message otherwise.
C13_ValidateReachability ==
    [][ (task'.fn = "test_if_valid_server" /\ <<task', io', res'>> # <<task, io, res>>)
        => /\ Len(io') = 1
           /\ io'[1].target = TextTarget(check_port(task'.target.text, 0))
           /\ io'[1].f = (IF task'.test_with_proxy /\ get_network_type(config) # "Direct"
                          THEN "into_target_addr" ELSE "to_socket_addrs")
           /\ (res'.err = "") <=> (io'[1].out = "Ok")
           /\ io'[1].out # "Ok" => res'.err = io'[1].out
      ]_vars

\* C13's case: under a proxy, a host without a port failed the parse and was not
\* resolved
C13_Witness ==
    /\ task.fn = "test_if_valid_server" /\ task.test_with_proxy
    /\ ~contains(task.target.text, ":")
    /\ io[1].f = "into_target_addr"
    /\ res.err = "invalid socket address"

\* connect_tcp_local's NAT64 case: a resolved IPv4 target and an IPv6 local address
Nat64Case ==
    /\ task.target.kind = "addr" /\ is_ipv4(task.target)
    /\ task.local # None /\ is_ipv6(task.local)

\* the IPv6 answers of a lookup, in order
V6Answers(e) == IF e.out = "Ok" THEN SelectSeq(e.addrs, is_ipv6) ELSE <<>>

\* C14: when connect_tcp_local found no proxy configured, it looks up the nip.io
\* name exactly in the NAT64 case; it then connects to the lookup's first IPv6
\* answer with the caller's local address and returns that connect's result, or,
\* without an IPv6 answer, returns an error and connects nowhere; in every other
\* case it makes one direct connect to the caller's target with the caller's
\* local address, and returns its result.
C14_Nat64Iff ==
    (task.fn = "connect_tcp_local" /\ task.pc # "connect_tcp_local" /\ task.conf = None)
    => IF Nat64Case
       THEN /\ Len(io) <= 2
            /\ task.pc = "done" => Len(io) >= 1
            /\ Len(io) >= 1
                 => /\ io[1].f = "lookup_host:nip.io" /\ io[1].target = task.target
                    /\ IF V6Answers(io[1]) = <<>>
                       THEN Len(io) = 1 /\ task.pc = "done" /\ res.kind = "Err"
                       ELSE task.pc = "done" => Len(io) = 2
            /\ Len(io) = 2
                 => /\ io[2] = Ev("FramedStream::new", V6Answers(io[1])[1], task.local, None,
                                  io[2].out, <<>>)
                    /\ task.pc = "done" /\ res.kind = io[2].out
       ELSE /\ Len(io) <= 1
            /\ \A i \in DOMAIN io :
                 io[i] = Ev("FramedStream::new", task.target, task.local, None, io[i].out, <<>>)
            /\ task.pc = "done" => (Len(io) = 1 /\ res.kind = io[1].out)

\* C14's case: the lookup answered an IPv4 address before an IPv6 one, and the
\* connection was made to the IPv6 one
C14_Witness ==
    /\ task.fn = "connect_tcp_local" /\ task.conf = None /\ task.pc = "done"
    /\ Nat64Case /\ Len(io) = 2
    /\ is_ipv4(io[1].addrs[1])
    /\ is_ipv6(io[2].target)
    /\ res.kind = "Ok"

\* C15: when new_udp_for read a network type that is not Direct, it makes no
\* probe connection and no lookup, the socket it binds is on the IPv4
\* any-address, and the target it returns is the caller's text, unresolved; text
\* that does not parse as a target address ends the call with an error before
\* any bind.
C15_ProxyUdp ==
    (task.fn = "new_udp_for" /\ task.nt \notin {"", "Direct"})
    => /\ \A i \in DOMAIN io :
            IsBind(io[i]) /\ io[i].local = get_any_listen_addr(TRUE) /\ is_ipv4(io[i].local)
       /\ Len(io) <= 1
       /\ (task.pc = "done" /\ res.kind = "Ok")
            => (Len(io) = 1 /\ res.target = task.target /\ res.target.kind = "str")
       /\ ~ParsesAsTarget(task.target)
            => (task.pc = "done" /\ res.kind = "Err" /\ io = <<>>)

\* C15's case: under a proxy the socket was bound and the text returned as target
C15_Witness ==
    /\ task.fn = "new_udp_for" /\ task.nt = "ProxySocks" /\ task.pc = "done"
    /\ res.kind = "Ok" /\ Len(io) = 1 /\ io[1].f = "FramedSocket::new_proxy"

-----------------------------------------------------------------------------
(* Claims about BytesCodec, continued *)

\* C16: a framed decode takes bytes off the buffer at two points only: the
\* header's bytes, when in Head the whole header is there and states a length
\* within the limit, and n bytes, when in Data(n), or right after the header,
\* at least n bytes are there.  With less than a header in Head, or less than n
\* bytes in Data(n), it returns None and leaves buffer and state as they were.
C16_ConsumptionPoints ==
    (op.name = "decode" /\ ~op.pre.raw)
    => LET s0 == op.pre.src IN
       IF op.pre.state = StHead
       THEN IF ~HeaderComplete(s0)
            THEN op.ret = "None" /\ src = s0 /\ state = op.pre.state
            ELSE IF StatedLen(s0) > op.pre.max_packet_length
            THEN src = s0
            ELSE IF BLen(s0) - HeaderLen(s0) >= StatedLen(s0)
            THEN src = Advance(s0, HeaderLen(s0) + StatedLen(s0))
            ELSE /\ src = Advance(s0, HeaderLen(s0))
                 /\ state = StData(StatedLen(s0))
                 /\ op.ret = "None"
       ELSE IF BLen(s0) >= op.pre.state.n
            THEN src = Advance(s0, op.pre.state.n) /\ op.ret = "Some"
            ELSE op.ret = "None" /\ src = s0 /\ state = op.pre.state

\* C16's case: in Data(n) with some, but fewer than n, bytes buffered, decode
\* returned None
C16_Witness ==
    /\ op.name = "decode" /\ ~op.pre.raw
    /\ op.pre.state.tag = "Data"
    /\ 0 < BLen(op.pre.src) /\ BLen(op.pre.src) < op.pre.state.n
    /\ op.ret = "None"

\* no data is ready in codec c: nothing buffered in raw mode, less than a header
\* in Head, less than n bytes in Data(n)
NoDataReady(c) ==
    IF c.raw THEN c.src = <<>>
    ELSE IF c.state = StHead THEN ~HeaderComplete(c.src)
    ELSE BLen(c.src) < c.state.n

\* C17 as the specification states it: once a decode returned None, and as long
\* as no bytes are appended, every further decode returns None and changes
\* neither buffer nor state; so, right after such a decode, whichever operation
\* that appends nothing comes next, a decode returns None and changes nothing.
C17_IdleDecode_Stated ==
    [][ (op.name = "decode" /\ op.ret = "None" /\ src' = src)
        => LET d == decode(Codec', src') IN
           d.ret = "None" /\ d.src = src' /\ d.state = state' ]_vars

\* C17: once a decode returned None, and as long as no bytes are appended and
\* set_raw is not called, every further decode returns None and changes neither
\* buffer nor state; a decode on an empty buffer returns None, never an error.
\* After a decode that returned None no data is ready; a decode with no data
\* ready returns None and changes neither buffer nor state; and
\* set_max_packet_length and encode leave no data ready.
C17_IdleDecode ==
    /\ (op.name = "decode" /\ op.ret = "None") => NoDataReady(Snap)
    /\ (op.name = "decode" /\ NoDataReady(op.pre))
         => (op.ret = "None" /\ src = op.pre.src /\ state = op.pre.state)
    /\ (op.name \in {"set_max_packet_length", "encode"} /\ NoDataReady(op.pre))
         => NoDataReady(Snap)
    /\ (op.name = "decode" /\ op.pre.src = <<>>) => op.ret = "None"

\* C17's case: a header was consumed by a decode that returned None, nothing
\* has arrived since, and the next decode returned None
C17_Witness ==
    /\ op.name = "decode" /\ op.ret = "None"
    /\ ~op.pre.raw
    /\ op.pre.state.tag = "Data" /\ op.pre.state.n > 0
    /\ op.pre.src = <<>>

\* in codec c the first k payloads sent have been emitted and nothing else: what
\* is buffered and what is still to arrive is the rest of the k+1st frame and the
\* frames after it
AtFrame(k, c) ==
    LET stream == Norm(c.src \o c.buf)
        later(i) == EncodeAll(SubSeq(sent, i, Len(sent)), <<>>)
    IN  IF c.state = StHead
        THEN stream = later(k + 1)
        ELSE /\ k < Len(sent)
             /\ c.state = StData(BLen(sent[k + 1]))
             /\ stream = Norm(sent[k + 1] \o later(k + 2))

\* C18: (stream of frames) with payloads encoded back to back by a framed
\* encoder, however the bytes arrive in chunks, a framed decoder under no packet
\* limit emits the payloads in order, each once: a decode that returns an item
\* returns the next payload not yet emitted and leaves the later frames' bytes
\* where they were, no decode returns an error, and a decode that returns None
\* once all bytes have arrived finds everything emitted, the buffer empty and
\* the state Head.
C18_StreamOfFrames ==
    ~raw =>
      /\ \E k \in 0..Len(sent) : AtFrame(k, Snap)
      /\ op.name = "decode"
           => IF op.ret = "Some"
              THEN \E k \in 1..Len(sent) :
                     /\ AtFrame(k - 1, op.pre)
                     /\ AtFrame(k, Snap)
                     /\ op.item = sent[k]
                     /\ state = StHead
              ELSE /\ op.ret = "None"
                   /\ \E k \in 0..Len(sent) : AtFrame(k, op.pre) /\ AtFrame(k, Snap)
      /\ (op.name = "decode" /\ op.ret = "None" /\ buf = <<>>)
           => (src = <<>> /\ state = StHead /\ AtFrame(Len(sent), Snap))

\* C18's case: the first of two different payloads was emitted while bytes of
\* the second frame were buffered behind it
C18_Witness ==
    /\ op.name = "decode" /\ op.ret = "Some"
    /\ Len(sent) = 2 /\ sent[1] # sent[2] /\ sent[1] # <<>>
    /\ op.item = sent[1]
    /\ src # <<>>

\* C19: (the oversized error is fatal) once a decode has returned the error,
\* nothing done to the codec afterwards makes a decode emit a frame; so, right
\* after the error, whichever operation comes next, a decode does not return an
\* item.
C19_OversizedFatal ==
    [][ (op.name = "decode" /\ op.ret = "Err") => decode(Codec', src').ret # "Some" ]_vars

\* C20: (one configuration per call) a call of new_udp_for binds through the
\* proxy exactly when it took the branch for a network type that is not Direct,
\* and binds a plain socket exactly when it took the Direct branch, also when
\* the configuration is changed between its steps.
C20_ConsistentConfig ==
    (task.fn = "new_udp_for" /\ task.nt # "")
    => \A i \in DOMAIN io :
         IsBind(io[i])
         => ((io[i].f = "FramedSocket::new_proxy") <=> (task.nt # "Direct"))

====
